---- MODULE Spec2Model ----
(***************************************************************************)
(* Model of the task placement engine of streamlit_app.py: build_events    *)
(* (teaching seeding, strict and relaxed weekday search, time-of-day       *)
(* first-fit placement, final sort) and the module-level manual override.  *)
(*                                                                         *)
(* A datetime is the number of minutes since 00:00 of week_start (the      *)
(* Monday of the week); a time object is its minutes since midnight; a     *)
(* date is the day index relative to week_start.  Fractional hours are     *)
(* kept in hundredths of an hour.                                          *)
(***************************************************************************)
EXTENDS Integers, Sequences, FiniteSets, TLC

\* ------------------------------------------------------------------------
\* Bounds of the explored input space
\* ------------------------------------------------------------------------
\* largest occurrence count given to the specs of a generated catalog
MaxCount == 3

\* ------------------------------------------------------------------------
\* Time helpers
\* ------------------------------------------------------------------------
DAY == 1440

\* time(h, m)
Time(h, m) == h * 60 + m

\* datetime.combine(d, t)
Combine(date, tm) == date * DAY + tm

\* dt.date()
DateOf(dt) == dt \div DAY

\* dt.time()
TimeOf(dt) == dt % DAY

\* snap_15: minute replaced by (minute // 15) * 15, seconds dropped
snap_15(dt) == (dt \div 60) * 60 + ((dt % 60) \div 15) * 15

\* ------------------------------------------------------------------------
\* Program constants
\* ------------------------------------------------------------------------
BUFFER_MIN == 15
WINDOW_START == Time(13, 0)
WINDOW_END_NEXTDAY == Time(2, 0)
MAX_TASKS_WEEKDAY == 3
MAX_TASKS_WEEKEND == 4
GYM_CUTOFF == Time(21, 0)
CHESSABLE_EARLIEST == Time(21, 0)
GYM_MIN_GAP == 2
OVERRIDE_START == Time(13, 0)
\* an override that ends ten minutes before the Monday class
OVERRIDE_END_Late == Time(16, 50)

OVERRIDE_END == Time(14, 0)

Weekdays == 0..6

Blk(n, s, e, c) == [name |-> n, s |-> s, e |-> e, color |-> c]

\* TEACHING: weekday -> ordered blocks (TEACHING.get(wd, []) for a missing key)
TEACHING ==
  [wd \in Weekdays |->
     CASE wd = 0 -> << Blk("Beginner Class", Time(17, 0), Time(18, 0), "#a855f7"),
                       Blk("Leo Mootoo", Time(18, 15), Time(19, 15), "#ef4444") >>
       [] wd = 1 -> << Blk("Pranava Classes", Time(13, 30), Time(17, 30), "#14b8a6"),
                       Blk("Advanced Class", Time(18, 30), Time(19, 30), "#3b82f6") >>
       [] wd = 2 -> << Blk("Jaydon", Time(18, 30), Time(19, 30), "#f97316") >>
       [] wd = 3 -> << Blk("Beginner Class", Time(17, 0), Time(18, 0), "#a855f7") >>
       [] wd = 4 -> << Blk("Leo Mootoo", Time(17, 0), Time(18, 0), "#ef4444") >>
       [] wd = 6 -> << Blk("Amrit", Time(19, 0), Time(20, 0), "#84cc16") >>
       [] OTHER -> << >> ]

TSpec(n, h, k, c) == [name |-> n, hrs |-> h, count |-> k, color |-> c]

\* TASK_SPECS: (name, hours in hundredths, occurrences, colour)
TASK_SPECS ==
  << TSpec("My System", 100, 2, "#8b5cf6"),
     TSpec("Calculation", 100, 4, "#f472b6"),
     TSpec("Opening Study", 100, 5, "#6366f1"),
     TSpec("Middlegame Study", 150, 2, "#ec4899"),
     TSpec("Endgame Study", 100, 2, "#22c55e"),
     TSpec("chessable/website tasks", 200, 2, "#0ea5e9"),
     TSpec("League Study", 200, 2, "#f59e0b"),
     TSpec("Gym", 75, 2, "#10b981") >>

\* a preference list that opens with clock times after midnight
preferred_start_times_PastMidnight ==
  << Time(0, 0), Time(0, 30), Time(22, 0), Time(21, 0) >>

\* preferred_start_times, in list order
preferred_start_times ==
  << Time(22, 0), Time(22, 15), Time(22, 30), Time(22, 45),
     Time(23, 0), Time(23, 15), Time(23, 30), Time(23, 45),
     Time(21, 0), Time(21, 15), Time(21, 30), Time(21, 45),
     Time(20, 0), Time(20, 15), Time(20, 30), Time(20, 45),
     Time(13, 0), Time(13, 15), Time(13, 30), Time(13, 45),
     Time(14, 0), Time(14, 15), Time(14, 30), Time(14, 45),
     Time(15, 0), Time(15, 15), Time(15, 30), Time(15, 45),
     Time(16, 0), Time(16, 15), Time(16, 30), Time(16, 45),
     Time(17, 0), Time(17, 15), Time(17, 30), Time(17, 45),
     Time(18, 0), Time(18, 15), Time(18, 30), Time(18, 45),
     Time(19, 0), Time(19, 15), Time(19, 30), Time(19, 45) >>

\* the weekdays in calendar order
preferred_days_Calendar == << 0, 1, 2, 3, 4, 5, 6 >>

\* preferred_days: Mon Thu Wed Fri Sat Sun Tue
preferred_days == << 0, 3, 2, 4, 5, 6, 1 >>

\* ------------------------------------------------------------------------
\* Explored inputs: teaching tables and task catalogs
\* ------------------------------------------------------------------------
NoTeaching == [wd \in Weekdays |-> << >>]

\* Tuesday..Sunday blocked from 00:00 to 23:45, Monday free
PackedTeaching ==
  [wd \in Weekdays |->
     IF wd = 0 THEN << >>
     ELSE << Blk("All Day Camp", Time(0, 0), Time(23, 45), "#64748b") >>]

\* blocks off the 15-minute grid, two of them overlapping each other
OffGridTeaching ==
  [wd \in Weekdays |->
     CASE wd = 0 -> << Blk("Clinic", Time(21, 40), Time(22, 20), "#64748b"),
                       Blk("Review", Time(22, 10), Time(23, 5), "#64748b") >>
       [] wd = 3 -> << Blk("Late Call", Time(23, 50), Time(23, 59), "#64748b") >>
       [] OTHER -> << >> ]

TeachingTables == {TEACHING, NoTeaching, PackedTeaching, OffGridTeaching}

Reverse(s) == [i \in 1..Len(s) |-> s[Len(s) + 1 - i]]

\* specs i..j of base, each asked for n occurrences
Slice(base, i, j, n) ==
  [k \in 1..(j - i + 1) |-> [base[i + k - 1] EXCEPT !.count = n]]

SliceCatalogs ==
  { Slice(base, i, j, n) :
      base \in {TASK_SPECS, Reverse(TASK_SPECS)},
      i \in 1..Len(TASK_SPECS), j \in 1..Len(TASK_SPECS), n \in 1..MaxCount }

ExtraCatalogs ==
  { \* one name listed twice, a spec with no occurrences, a 19-minute task
    << TSpec("Gym", 75, 1, "#10b981"), TSpec("Idle", 100, 0, "#000000"),
       TSpec("Gym", 75, 2, "#10b981"), TSpec("Drill", 33, 2, "#111111") >>,
    \* three tasks that fill Monday's quota before Endgame and Opening are placed
    << TSpec("Calculation", 100, 1, "#f472b6"), TSpec("Middlegame Study", 150, 1, "#ec4899"),
       TSpec("League Study", 200, 1, "#f59e0b"), TSpec("Endgame Study", 100, 1, "#22c55e"),
       TSpec("Opening Study", 100, 2, "#6366f1") >>,
    \* a task longer than the 13-hour day window
    << TSpec("Marathon", 1400, 1, "#222222"), TSpec("Opening Study", 100, 1, "#6366f1") >> }

Catalogs == {TASK_SPECS} \cup { c \in SliceCatalogs : Len(c) >= 1 } \cup ExtraCatalogs

\* ------------------------------------------------------------------------
\* Scheduling engine: pure helpers
\* ------------------------------------------------------------------------
Ev(n, s, e, c, k) == [name |-> n, start |-> s, end |-> e, color |-> c, kind |-> k]

overlaps(a_start, a_end, b_start, b_end) ==
  ~(a_end <= b_start \/ a_start >= b_end)

\* can_place without the buffer
can_place_NoBuffer(evs, start, end) ==
  \A i \in 1..Len(evs) : ~overlaps(start, end, evs[i].start, evs[i].end)

can_place(evs, start, end) ==
  LET s == start - BUFFER_MIN
      e == end + BUFFER_MIN
  IN  \A i \in 1..Len(evs) : ~overlaps(s, e, evs[i].start, evs[i].end)

\* day_window(d) = (wstart, wend)
day_window(d) == << Combine(d, WINDOW_START), Combine(d + 1, WINDOW_END_NEXTDAY) >>

\* dur = timedelta(minutes=int(dur_hours * 60))
DurMinutes(hrs) == (hrs * 60) \div 100

\* the first loop without the test that the task stays inside the window
PreferredCandidates_Unchecked(d, dur) ==
  [i \in 1..Len(preferred_start_times) |->
     snap_15(Combine(IF preferred_start_times[i] >= WINDOW_START THEN d ELSE d + 1,
                     preferred_start_times[i]))]

\* first loop of try_place_task_on_day: preferred clock times inside the window
PreferredCandidates(d, dur) ==
  LET w == day_window(d)
      at(t) == snap_15(Combine(IF t >= WINDOW_START THEN d ELSE d + 1, t))
      all == [i \in 1..Len(preferred_start_times) |-> at(preferred_start_times[i])]
      inside(start) == w[1] <= start /\ start + dur <= w[2]
  IN  SelectSeq(all, inside)

\* while cur + dur <= wend: candidates.append(cur); cur += 15 minutes
\* (the loop runs ScanCount times and appends cur, cur + 15, cur + 30, ...)
ScanCount(cur, dur, wend) ==
  IF cur + dur <= wend THEN (wend - dur - cur) \div 15 + 1 ELSE 0

ScanFrom(cur, dur, wend) ==
  [k \in 1..ScanCount(cur, dur, wend) |-> cur + 15 * (k - 1)]

ScanCandidates(d, dur) ==
  LET w == day_window(d) IN ScanFrom(snap_15(w[1]), dur, w[2])

RECURSIVE DedupRange(_, _, _)
\* de-dupe of cands[lo..hi], keeping the first occurrence of each start:
\* the left half de-duped, then what the right half adds to it
DedupRange(cands, lo, hi) ==
  IF lo > hi THEN << >>
  ELSE IF lo = hi THEN << cands[lo] >>
  ELSE LET mid == (lo + hi) \div 2
           left == DedupRange(cands, lo, mid)
           right == DedupRange(cands, mid + 1, hi)
           seen == { left[k] : k \in 1..Len(left) }
           fresh(c) == c \notin seen
       IN  left \o SelectSeq(right, fresh)

Dedup(cands) == DedupRange(cands, 1, Len(cands))

\* the scan tried before the preferred clock times
Candidates_ScanFirst(d, dur) == Dedup(ScanCandidates(d, dur) \o PreferredCandidates(d, dur))

\* uniq of try_place_task_on_day
Candidates(d, dur) == Dedup(PreferredCandidates(d, dur) \o ScanCandidates(d, dur))

\* the Gym rule without the 9 PM cutoff
GymRuleOK_NoCutoff(start, end) == DateOf(start) = DateOf(end)

\* Gym rule: must end by 9 PM same day
GymRuleOK(start, end) ==
  DateOf(start) = DateOf(end) /\ ~(TimeOf(end) > GYM_CUTOFF)

\* the chessable rule without the 9 PM floor
ChessableRuleOK_AnyTime(start, d) == DateOf(start) = d

\* chessable/website tasks: only after 9 PM, start on the assigned day
ChessableRuleOK(start, d) ==
  ~(TimeOf(start) < CHESSABLE_EARLIEST) /\ DateOf(start) = d

\* the task-specific continue statements of the candidate loop
TaskRuleOK(task_name, start, end, d) ==
  /\ (task_name = "Gym" => GymRuleOK(start, end))
  /\ (task_name = "chessable/website tasks" => ChessableRuleOK(start, d))

\* the candidate loop accepts this start
Accepts(evs, task_name, dur, d, start) ==
  TaskRuleOK(task_name, start, start + dur, d) /\ can_place(evs, start, start + dur)

\* try_place_task_on_day: << >> on failure, << start >> of the appended event
try_place_task_on_day(evs, task_name, dur_hours, wd) ==
  LET minutes == DurMinutes(dur_hours)
      uniq == Candidates(wd, minutes)
      ok == { i \in 1..Len(uniq) : Accepts(evs, task_name, minutes, wd, uniq[i]) }
  IN  IF ok = {} THEN << >>
      ELSE << uniq[CHOOSE i \in ok : \A j \in ok : i <= j] >>

\* a sort that leaves the list as it is
SortByStart_Skipped(evs) == evs

\* place of evs[i] after a stable ascending sort by start: it follows every
\* event that starts earlier and every earlier event with the same start
SortRank(evs, i) ==
  Cardinality({ j \in 1..Len(evs) :
                  \/ evs[j].start < evs[i].start
                  \/ (evs[j].start = evs[i].start /\ j < i) }) + 1

\* events.sort(key=lambda e: e.start), a stable sort
SortByStart(evs) ==
  [p \in 1..Len(evs) |-> evs[CHOOSE i \in 1..Len(evs) : SortRank(evs, i) = p]]

\* ------------------------------------------------------------------------
\* State
\* ------------------------------------------------------------------------
VARIABLES
  teaching,       \* the teaching table of this run
  specs,          \* the task catalog of this run
  events,         \* the working event list
  used_days,      \* task name -> set of weekdays used by that task
  tasks_per_day,  \* weekday -> counter of the strict pass
  gym_days,       \* weekdays on which Gym was placed, in placement order
  pc,             \* "seed", "strict", "relaxed", "sort", "built", "final"
  si,             \* index of the current spec in the catalog
  occ,            \* number of the current occurrence of that spec
  di,             \* index into preferred_days of the weekday tried next
  placements      \* history: one record per successful try_place_task_on_day

vars == << teaching, specs, events, used_days, tasks_per_day, gym_days,
           pc, si, occ, di, placements >>

Names == { specs[i].name : i \in 1..Len(specs) }

\* used_days.get(name, set())
UsedGet(name) == IF name \in DOMAIN used_days THEN used_days[name] ELSE {}

RECURSIVE TeachingFrom_NoSunday(_, _)
\* the seeding loops stopping before Sunday
TeachingFrom_NoSunday(tbl, wd) ==
  IF wd > 5 THEN << >>
  ELSE [i \in 1..Len(tbl[wd]) |->
          Ev(tbl[wd][i].name, Combine(wd, tbl[wd][i].s), Combine(wd, tbl[wd][i].e),
             tbl[wd][i].color, "teaching")]
       \o TeachingFrom_NoSunday(tbl, wd + 1)

RECURSIVE TeachingFrom(_, _)
\* the seeding loops: weekdays in calendar order, blocks in table order
TeachingFrom(tbl, wd) ==
  IF wd > 6 THEN << >>
  ELSE [i \in 1..Len(tbl[wd]) |->
          Ev(tbl[wd][i].name, Combine(wd, tbl[wd][i].s), Combine(wd, tbl[wd][i].e),
             tbl[wd][i].color, "teaching")]
       \o TeachingFrom(tbl, wd + 1)

RECURSIVE FirstPos(_)
\* first spec at or after index i that has an occurrence to place; 0 if none
FirstPos(i) ==
  IF i > Len(specs) THEN 0
  ELSE IF specs[i].count >= 1 THEN i
  ELSE FirstPos(i + 1)

\* the occurrence loop run once too often
GoNext_ExtraOccurrence(fromSpec, fromOcc) ==
  IF fromSpec >= 1 /\ fromOcc <= specs[fromSpec].count
  THEN /\ pc' = "strict" /\ si' = fromSpec /\ occ' = fromOcc + 1 /\ di' = 1
  ELSE LET n == FirstPos(fromSpec + 1)
       IN  IF n = 0
           THEN /\ pc' = "sort" /\ si' = 0 /\ occ' = 0 /\ di' = 0
           ELSE /\ pc' = "strict" /\ si' = n /\ occ' = 1 /\ di' = 1

\* control moves to the next occurrence, or to the final sort
GoNext(fromSpec, fromOcc) ==
  IF fromSpec >= 1 /\ fromOcc < specs[fromSpec].count
  THEN /\ pc' = "strict" /\ si' = fromSpec /\ occ' = fromOcc + 1 /\ di' = 1
  ELSE LET n == FirstPos(fromSpec + 1)
       IN  IF n = 0
           THEN /\ pc' = "sort" /\ si' = 0 /\ occ' = 0 /\ di' = 0
           ELSE /\ pc' = "strict" /\ si' = n /\ occ' = 1 /\ di' = 1

\* the exclusion checked for Opening Study only
ExclusionOK_OpeningOnly(name, wd) ==
  ~(name = "Opening Study" /\ wd \in UsedGet("Endgame Study"))

\* Opening vs Endgame must be on different days
ExclusionOK(name, wd) ==
  /\ ~(name = "Opening Study" /\ wd \in UsedGet("Endgame Study"))
  /\ ~(name = "Endgame Study" /\ wd \in UsedGet("Opening Study"))

\* a limit one lower from Monday to Friday
Limit_TightWeekdays(wd) ==
  IF wd >= 5 THEN MAX_TASKS_WEEKEND ELSE MAX_TASKS_WEEKDAY - 1

\* limit = MAX_TASKS_WEEKEND if wd >= 5 else MAX_TASKS_WEEKDAY
Limit(wd) == IF wd >= 5 THEN MAX_TASKS_WEEKEND ELSE MAX_TASKS_WEEKDAY

\* a quota test that lets one placement too many through
QuotaOK_OffByOne(wd) == ~(tasks_per_day[wd] > Limit(wd))

QuotaOK(wd) == ~(tasks_per_day[wd] >= Limit(wd))

Abs(x) == IF x < 0 THEN -x ELSE x

\* Gym spacing that only rejects the very same weekday
GymSpacingOK_SameDayOnly(name, wd) ==
  name = "Gym" => ~(\E k \in 1..Len(gym_days) : Abs(wd - gym_days[k]) < 1)

\* not any(abs(wd - gd) < 2 for gd in gym_days)
GymSpacingOK(name, wd) ==
  name = "Gym" => ~(\E k \in 1..Len(gym_days) : Abs(wd - gym_days[k]) < GYM_MIN_GAP)

\* the first loop without the already-used check
StrictDayOK_Reuse(name, wd) ==
  /\ ExclusionOK(name, wd)
  /\ QuotaOK(wd)
  /\ GymSpacingOK(name, wd)

\* day-level checks of the first loop over preferred_days
StrictDayOK(name, wd) ==
  /\ wd \notin used_days[name]
  /\ ExclusionOK(name, wd)
  /\ QuotaOK(wd)
  /\ GymSpacingOK(name, wd)

\* a second loop that still enforces the quota
RelaxedDayOK_WithQuota(name, wd) ==
  /\ wd \notin used_days[name]
  /\ ExclusionOK(name, wd)
  /\ QuotaOK(wd)
  /\ GymSpacingOK(name, wd)

\* day-level checks of the second loop over preferred_days
RelaxedDayOK(name, wd) ==
  /\ wd \notin used_days[name]
  /\ ExclusionOK(name, wd)
  /\ GymSpacingOK(name, wd)

CurSpec == specs[si]
CurDay == preferred_days[di]

\* the bookkeeping shared by both passes after a successful placement
Record(wd, start, pass) ==
  LET sp == CurSpec
      end == start + DurMinutes(sp.hrs)
  IN  /\ events' = Append(events, Ev(sp.name, start, end, sp.color, "task"))
      /\ used_days' = [used_days EXCEPT ![sp.name] = @ \cup {wd}]
      /\ gym_days' = IF sp.name = "Gym" THEN Append(gym_days, wd) ELSE gym_days
      /\ placements' = Append(placements,
            [name |-> sp.name, wd |-> wd, start |-> start, end |-> end,
             pass |-> pass, si |-> si, occ |-> occ])

\* ------------------------------------------------------------------------
\* Actions
\* ------------------------------------------------------------------------
Init ==
  /\ teaching \in TeachingTables
  /\ specs \in Catalogs
  /\ events = << >>
  /\ used_days = [n \in Names |-> {}]
  /\ tasks_per_day = [i \in Weekdays |-> 0]
  /\ gym_days = << >>
  /\ pc = "seed"
  /\ si = 0 /\ occ = 0 /\ di = 0
  /\ placements = << >>

\* teaching blocks are appended, then the first occurrence is taken up
SeedTeaching ==
  /\ pc = "seed"
  /\ events' = TeachingFrom(teaching, 0)
  /\ GoNext(0, 0)
  /\ UNCHANGED << teaching, specs, used_days, tasks_per_day, gym_days, placements >>

\* strict pass: a day-level check says continue
StrictSkip ==
  /\ pc = "strict" /\ di <= Len(preferred_days)
  /\ ~StrictDayOK(CurSpec.name, CurDay)
  /\ di' = di + 1
  /\ UNCHANGED << teaching, specs, events, used_days, tasks_per_day, gym_days,
                  pc, si, occ, placements >>

\* strict pass: try_place_task_on_day returns False
StrictFail ==
  /\ pc = "strict" /\ di <= Len(preferred_days)
  /\ StrictDayOK(CurSpec.name, CurDay)
  /\ try_place_task_on_day(events, CurSpec.name, CurSpec.hrs, CurDay) = << >>
  /\ di' = di + 1
  /\ UNCHANGED << teaching, specs, events, used_days, tasks_per_day, gym_days,
                  pc, si, occ, placements >>

\* strict pass: try_place_task_on_day appends an event and returns True
StrictPlace ==
  /\ pc = "strict" /\ di <= Len(preferred_days)
  /\ StrictDayOK(CurSpec.name, CurDay)
  /\ LET r == try_place_task_on_day(events, CurSpec.name, CurSpec.hrs, CurDay)
     IN  /\ r # << >>
         /\ Record(CurDay, r[1], "strict")
  /\ tasks_per_day' = [tasks_per_day EXCEPT ![CurDay] = @ + 1]
  /\ GoNext(si, occ)
  /\ UNCHANGED << teaching, specs >>

\* strict pass ran through all weekdays: if not placed, the relaxed pass starts
StrictExhausted ==
  /\ pc = "strict" /\ di > Len(preferred_days)
  /\ pc' = "relaxed" /\ di' = 1
  /\ UNCHANGED << teaching, specs, events, used_days, tasks_per_day, gym_days,
                  si, occ, placements >>

\* relaxed pass: a day-level check says continue
RelaxedSkip ==
  /\ pc = "relaxed" /\ di <= Len(preferred_days)
  /\ ~RelaxedDayOK(CurSpec.name, CurDay)
  /\ di' = di + 1
  /\ UNCHANGED << teaching, specs, events, used_days, tasks_per_day, gym_days,
                  pc, si, occ, placements >>

\* relaxed pass: try_place_task_on_day returns False
RelaxedFail ==
  /\ pc = "relaxed" /\ di <= Len(preferred_days)
  /\ RelaxedDayOK(CurSpec.name, CurDay)
  /\ try_place_task_on_day(events, CurSpec.name, CurSpec.hrs, CurDay) = << >>
  /\ di' = di + 1
  /\ UNCHANGED << teaching, specs, events, used_days, tasks_per_day, gym_days,
                  pc, si, occ, placements >>

\* relaxed pass: placement succeeds; tasks_per_day is not incremented here
RelaxedPlace ==
  /\ pc = "relaxed" /\ di <= Len(preferred_days)
  /\ RelaxedDayOK(CurSpec.name, CurDay)
  /\ LET r == try_place_task_on_day(events, CurSpec.name, CurSpec.hrs, CurDay)
     IN  /\ r # << >>
         /\ Record(CurDay, r[1], "relaxed")
  /\ GoNext(si, occ)
  /\ UNCHANGED << teaching, specs, tasks_per_day >>

\* relaxed pass ran through all weekdays: the occurrence is dropped
RelaxedDrop ==
  /\ pc = "relaxed" /\ di > Len(preferred_days)
  /\ GoNext(si, occ)
  /\ UNCHANGED << teaching, specs, events, used_days, tasks_per_day, gym_days,
                  placements >>

\* events.sort(key=lambda e: e.start); return events
SortAndReturn ==
  /\ pc = "sort"
  /\ events' = SortByStart(events)
  /\ pc' = "built"
  /\ UNCHANGED << teaching, specs, used_days, tasks_per_day, gym_days,
                  si, occ, di, placements >>

\* an override loop that matches the name only
OverrideTarget_AnyDay(evs) ==
  LET hit == { i \in 1..Len(evs) : evs[i].name = "My System" }
  IN  IF hit = {} THEN 0 ELSE CHOOSE i \in hit : \A j \in hit : i <= j

\* index of the event the override loop stops at; 0 if the loop runs out
OverrideTarget(evs) ==
  LET hit == { i \in 1..Len(evs) : evs[i].name = "My System" /\ DateOf(evs[i].start) = 0 }
  IN  IF hit = {} THEN 0 ELSE CHOOSE i \in hit : \A j \in hit : i <= j

\* an override that pins only the start
ApplyOverride_StartOnly(evs) ==
  LET t == OverrideTarget(evs)
  IN  IF t = 0 THEN evs ELSE [evs EXCEPT ![t].start = Combine(0, OVERRIDE_START)]

\* the override loop: the first Monday "My System" is pinned to 1:00-2:00 PM
ApplyOverride(evs) ==
  LET t == OverrideTarget(evs)
  IN  IF t = 0 THEN evs
      ELSE [evs EXCEPT ![t].start = Combine(0, OVERRIDE_START),
                       ![t].end = Combine(0, OVERRIDE_END)]

\* module level: manual override, then the list is sorted again for the consumers
ManualOverride ==
  /\ pc = "built"
  /\ events' = SortByStart(ApplyOverride(events))
  /\ pc' = "final"
  /\ UNCHANGED << teaching, specs, used_days, tasks_per_day, gym_days,
                  si, occ, di, placements >>

Next ==
  \/ SeedTeaching
  \/ StrictSkip
  \/ StrictFail
  \/ StrictPlace
  \/ StrictExhausted
  \/ RelaxedSkip
  \/ RelaxedFail
  \/ RelaxedPlace
  \/ RelaxedDrop
  \/ SortAndReturn
  \/ ManualOverride

Spec == Init /\ [][Next]_vars

TypeOK ==
  /\ pc \in {"seed", "strict", "relaxed", "sort", "built", "final"}
  /\ \A i \in 1..Len(events) : events[i].kind \in {"teaching", "task"}
  /\ \A wd \in Weekdays : tasks_per_day[wd] \in Nat

\* ------------------------------------------------------------------------
\* Vocabulary of the properties
\* ------------------------------------------------------------------------
\* the half-open intervals [a1, a2) and [b1, b2) have a point in common
Intersects(a1, a2, b1, b2) ==
  a1 < a2 /\ b1 < b2 /\ a1 < b2 /\ b1 < a2

TaskIdx == { i \in 1..Len(events) : events[i].kind = "task" }

IsSortedByStart(evs) ==
  \A i \in 1..(Len(evs) - 1) : evs[i].start <= evs[i + 1].start

Placed(name) == { k \in 1..Len(placements) : placements[k].name = name }

DefaultInputs == teaching = TEACHING /\ specs = TASK_SPECS

\* build_events is still running or has just returned
InBuild == pc # "final"

\* C1: while build_events runs and in the list it returns, a task event
\* widened by 15 minutes on both sides shares no minute with any other event
\* of the week, teaching or task, whatever the calendar day of either.
C1_BufferKept ==
  InBuild =>
    \A i \in TaskIdx : \A j \in 1..Len(events) :
      j # i => ~Intersects(events[i].start - 15, events[i].end + 15,
                           events[j].start, events[j].end)

\* a returned list in which a task starts exactly 15 minutes after an event
\* that began on the previous calendar day
C1_Witness ==
  /\ pc = "built"
  /\ \E i \in TaskIdx : \E j \in 1..Len(events) :
       /\ j # i
       /\ events[j].end + 15 = events[i].start
       /\ DateOf(events[j].start) < DateOf(events[i].start)

\* C2: at every point no weekday is assigned both to an Opening Study event
\* and to an Endgame Study event, in the bookkeeping and in the placements.
C2_OpeningEndgameApart ==
  /\ UsedGet("Opening Study") \cap UsedGet("Endgame Study") = {}
  /\ \A a \in Placed("Opening Study") : \A b \in Placed("Endgame Study") :
       placements[a].wd # placements[b].wd

\* both tasks are placed, one of them by the relaxed pass
C2_Witness ==
  \E a \in Placed("Opening Study") : \E b \in Placed("Endgame Study") :
    placements[a].pass = "relaxed" \/ placements[b].pass = "relaxed"

\* C3: every Gym event ends on the calendar day it starts on, at or before 21:00.
C3_GymEndsBy9PM ==
  \A i \in TaskIdx :
    events[i].name = "Gym" =>
      /\ DateOf(events[i].end) = DateOf(events[i].start)
      /\ TimeOf(events[i].end) <= Time(21, 0)

\* a Gym event that ends at 21:00 sharp
C3_Witness ==
  \E i \in TaskIdx : events[i].name = "Gym" /\ TimeOf(events[i].end) = Time(21, 0)

\* C4: any two weekdays on which Gym has been placed differ by at least 2.
C4_GymDaysSpaced ==
  /\ \A a, b \in 1..Len(gym_days) : a # b => Abs(gym_days[a] - gym_days[b]) >= 2
  /\ \A a, b \in Placed("Gym") :
       a # b => Abs(placements[a].wd - placements[b].wd) >= 2

\* two Gym placements, one of them made by the relaxed pass
C4_Witness ==
  \E a, b \in Placed("Gym") : a # b /\ placements[a].pass = "relaxed"

\* C5: every chessable/website tasks event starts at 21:00 or later on the
\* calendar date of the weekday it was placed for.
C5_ChessableLateSameDay ==
  /\ \A k \in Placed("chessable/website tasks") :
       /\ TimeOf(placements[k].start) >= Time(21, 0)
       /\ DateOf(placements[k].start) = placements[k].wd
  /\ \A i \in TaskIdx :
       events[i].name = "chessable/website tasks" =>
         \E k \in Placed("chessable/website tasks") :
           /\ placements[k].start = events[i].start
           /\ placements[k].end = events[i].end

\* a chessable event placed on a weekday whose 22:00 start was not free
C5_Witness ==
  \E k \in Placed("chessable/website tasks") :
    TimeOf(placements[k].start) # Time(22, 0)

\* C6: the weekdays assigned to the events of one task name are pairwise distinct.
C6_OneSlotPerTaskPerDay ==
  \A a, b \in 1..Len(placements) :
    (a # b /\ placements[a].name = placements[b].name) =>
      placements[a].wd # placements[b].wd

\* one task on two weekdays, one of them by the relaxed pass, and a weekday
\* shared by two different tasks
C6_Witness ==
  /\ \E a, b \in 1..Len(placements) :
       /\ a # b /\ placements[a].name = placements[b].name
       /\ placements[b].pass = "relaxed"
  /\ \E a, b \in 1..Len(placements) :
       placements[a].name # placements[b].name /\ placements[a].wd = placements[b].wd

\* C7: the list build_events returns and the list the renderer and the PDF
\* exporter get after the override are in non-decreasing order of start.
C7_SortedForConsumers ==
  pc \in {"built", "final"} => IsSortedByStart(events)

\* the override moved an event that the engine had put later on Monday, after
\* other events, and it is first in the final list
C7_Witness ==
  /\ pc = "final" /\ Len(events) > 1
  /\ events[1].name = "My System" /\ events[1].start = Combine(0, Time(13, 0))
  /\ \E k \in Placed("My System") :
       /\ placements[k].wd = 0
       /\ \E j \in 1..Len(events) : events[j].start < placements[k].start

\* C9: with the default tables, after the override the list has a My System
\* event from Monday 13:00 to Monday 14:00.
C9_MySystemPinned ==
  (DefaultInputs /\ pc = "final") =>
    \E i \in 1..Len(events) :
      /\ events[i].name = "My System"
      /\ events[i].start = Combine(0, Time(13, 0))
      /\ events[i].end = Combine(0, Time(14, 0))

\* the default run is over and the engine had chosen another slot on Monday
C9_Witness ==
  /\ DefaultInputs /\ pc = "final"
  /\ \E k \in Placed("My System") :
       placements[k].wd = 0 /\ placements[k].start # Combine(0, Time(13, 0))

\* starts of the 15-minute grid that keep a task of dur minutes in the window
\* of weekday wd
GridStarts(wd, dur) ==
  { t \in Combine(wd, Time(13, 0))..Combine(wd + 1, Time(2, 0)) :
      t % 15 = 0 /\ t + dur <= Combine(wd + 1, Time(2, 0)) }

\* weekday wd has a feasible time slot for the task: a grid start that meets
\* the task's own rule and keeps the buffer from every event placed so far
FeasibleSlot(name, dur, wd) ==
  \E t \in GridStarts(wd, dur) :
    /\ name = "Gym" => (DateOf(t + dur) = DateOf(t) /\ TimeOf(t + dur) <= Time(21, 0))
    /\ name = "chessable/website tasks" => (TimeOf(t) >= Time(21, 0) /\ DateOf(t) = wd)
    /\ \A j \in 1..Len(events) :
         ~Intersects(t - 15, t + dur + 15, events[j].start, events[j].end)

\* positions in the preferred order whose weekday the relaxed pass may use
RelaxedOpen(name, dur) ==
  { k \in 1..Len(preferred_days) :
      LET wd == preferred_days[k]
      IN  /\ \A a \in Placed(name) : placements[a].wd # wd
          /\ (name = "Opening Study" =>
                \A a \in Placed("Endgame Study") : placements[a].wd # wd)
          /\ (name = "Endgame Study" =>
                \A a \in Placed("Opening Study") : placements[a].wd # wd)
          /\ (name = "Gym" => \A a \in Placed("Gym") : Abs(placements[a].wd - wd) >= 2)
          /\ FeasibleSlot(name, dur, wd) }

MinOf(S) == CHOOSE x \in S : \A y \in S : x <= y

\* C10: when the relaxed pass of an occurrence ends, the occurrence has been
\* placed on the first weekday of the preferred order that passes the
\* already-used check, the Opening/Endgame exclusion and the Gym spacing rule
\* and has a feasible slot, whatever the quotas; it is dropped only if there
\* is no such weekday.
C10_RelaxedPlacesFirstOpenDay ==
  [][ (pc = "relaxed" /\ (pc' # "relaxed" \/ si' # si \/ occ' # occ)) =>
        LET open == RelaxedOpen(specs[si].name, (specs[si].hrs * 60) \div 100)
        IN  IF open = {}
            THEN events' = events /\ placements' = placements
            ELSE /\ Len(events') = Len(events) + 1
                 /\ Len(placements') = Len(placements) + 1
                 /\ placements'[Len(placements')].name = specs[si].name
                 /\ placements'[Len(placements')].pass = "relaxed"
                 /\ placements'[Len(placements')].wd = preferred_days[MinOf(open)]
    ]_vars

\* an occurrence placed by the relaxed pass on a weekday whose quota was met
C10_Witness ==
  \E k \in 1..Len(placements) :
    /\ placements[k].pass = "relaxed"
    /\ tasks_per_day[placements[k].wd] >= Limit(placements[k].wd)

RECURSIVE CountFrom(_, _)
\* occurrences asked for by the specs i..j of the catalog
CountFrom(i, j) == IF i > j THEN 0 ELSE specs[i].count + CountFrom(i + 1, j)

\* occurrences not yet finished, the current one included
OccurrencesLeft ==
  CountFrom(1, Len(specs)) - (CountFrom(1, si - 1) + occ) + 1

\* what is left of the run: a number that every step must lower
StepsLeft ==
  CASE pc = "seed" -> (CountFrom(1, Len(specs)) + 1) * 16 + 3
    [] pc = "strict" -> OccurrencesLeft * 16 + 8 + (8 - di)
    [] pc = "relaxed" -> OccurrencesLeft * 16 + (8 - di)
    [] pc = "sort" -> 2
    [] pc = "built" -> 1
    [] OTHER -> 0

RECURSIVE RequestedFrom(_, _)
\* occurrences the catalog asks for under one task name, from spec i on
RequestedFrom(name, i) ==
  IF i > Len(specs) THEN 0
  ELSE (IF specs[i].name = name THEN specs[i].count ELSE 0) + RequestedFrom(name, i + 1)

TaskEventsNamed(name) == { i \in TaskIdx : events[i].name = name }

\* a step inside one of the two loops over preferred_days that appends no event
FailedDayStep ==
  /\ pc \in {"strict", "relaxed"} /\ di <= 7
  /\ Len(events') = Len(events)

\* the step that ends an occurrence without a placement
DropStep ==
  /\ pc = "relaxed"
  /\ (pc' # "relaxed" \/ si' # si \/ occ' # occ)
  /\ Len(placements') = Len(placements)

\* no task name has more task events than the catalog asks for
WithinRequested ==
  \A name \in Names : Cardinality(TaskEventsNamed(name)) <= RequestedFrom(name, 1)

\* every lookup the next step makes is defined: inside the loops the spec, the
\* occurrence and the weekday exist and the bookkeeping has their keys
LookupsDefined ==
  pc \in {"strict", "relaxed"} =>
    /\ si \in 1..Len(specs) /\ occ \in 1..specs[si].count /\ di \in 1..8
    /\ specs[si].name \in DOMAIN used_days
    /\ (di <= 7 => preferred_days[di] \in DOMAIN tasks_per_day)

\* C11: build_events runs to its return without raising: every step lowers
\* StepsLeft, which never goes below 0, and every lookup of the loops is
\* defined; a weekday on which nothing is placed adds no event and the search
\* goes on with the next weekday; a dropped occurrence adds no event and leaves
\* used_days, tasks_per_day and gym_days as they were; no task name has more
\* task events than the catalog asks for.
C11_NeverFailsTheRun ==
  [][ /\ LookupsDefined /\ LookupsDefined'
      /\ StepsLeft' < StepsLeft /\ StepsLeft' >= 0
      /\ FailedDayStep =>
           (events' = events /\ di' = di + 1 /\ pc' = pc /\ si' = si /\ occ' = occ)
      /\ DropStep =>
           (/\ events' = events /\ used_days' = used_days
            /\ tasks_per_day' = tasks_per_day /\ gym_days' = gym_days)
      /\ WithinRequested /\ WithinRequested' ]_vars

\* the list was returned with an occurrence missing: fewer task events of a
\* name than the catalog asks for
C11_Witness ==
  /\ pc = "built"
  /\ \E name \in Names :
       /\ Cardinality(TaskEventsNamed(name)) >= 1
       /\ Cardinality(TaskEventsNamed(name)) < RequestedFrom(name, 1)

\* task events placed so far for weekday wd, by either pass
PlacedOn(wd) == { k \in 1..Len(placements) : placements[k].wd = wd }

\* C12: at every point tasks_per_day[wd] is the number of task events placed so
\* far for weekday wd, placements of the strict and of the relaxed pass counted.
C12_CounterMatchesPlacements ==
  \A wd \in Weekdays : tasks_per_day[wd] = Cardinality(PlacedOn(wd))

StrictOn(wd) == { k \in PlacedOn(wd) : placements[k].pass = "strict" }

\* the step appends a placement made by the strict pass
StrictPlacementStep ==
  /\ Len(placements') = Len(placements) + 1
  /\ placements'[Len(placements')].pass = "strict"

\* C13: a strict-pass placement on a weekday happens only while fewer task
\* placements than its quota (3 for Mon-Fri, 4 for Sat/Sun) are counted for it
\* and placed for it, so a weekday has more task events than its quota only
\* through relaxed-pass placements.
C13_StrictRespectsQuota ==
  [][ /\ StrictPlacementStep =>
           LET wd == placements'[Len(placements')].wd
               quota == IF wd \in 0..4 THEN 3 ELSE 4
           IN  /\ tasks_per_day[wd] < quota
               /\ Cardinality(PlacedOn(wd)) < quota
      /\ \A wd \in 0..4 : Cardinality(StrictOn(wd))' <= 3
      /\ \A wd \in 5..6 : Cardinality(StrictOn(wd))' <= 4 ]_vars

\* a weekday Mon-Fri holds its three strict placements and a fourth, relaxed one
C13_Witness ==
  \E wd \in 0..4 :
    /\ Cardinality(StrictOn(wd)) = 3
    /\ Cardinality(PlacedOn(wd)) > 3

\* a task of dur minutes started at t for weekday wd meets its own rule and
\* keeps the buffer from every event placed so far
SlotOK(name, dur, wd, t) ==
  /\ name = "Gym" => (DateOf(t + dur) = DateOf(t) /\ TimeOf(t + dur) <= Time(21, 0))
  /\ name = "chessable/website tasks" => (TimeOf(t) >= Time(21, 0) /\ DateOf(t) = wd)
  /\ \A j \in 1..Len(events) :
       ~Intersects(t - 15, t + dur + 15, events[j].start, events[j].end)

\* the preferred clock time number k, taken on weekday wd
PrefStart(wd, k) == wd * 1440 + preferred_start_times[k]

\* positions of the preferred clock times that keep the task inside the window
PrefInWindow(wd, dur) ==
  { k \in 1..Len(preferred_start_times) :
      /\ PrefStart(wd, k) >= wd * 1440 + Time(13, 0)
      /\ PrefStart(wd, k) + dur <= (wd + 1) * 1440 + Time(2, 0) }

\* s is the first start that passes, in the order: preferred clock times inside
\* the window, then the 15-minute scan of the window, first occurrences only
IsFirstFit(name, dur, wd, s) ==
  /\ SlotOK(name, dur, wd, s)
  /\ LET at == { k \in PrefInWindow(wd, dur) : PrefStart(wd, k) = s }
     IN  IF at # {}
         THEN \A k \in PrefInWindow(wd, dur) :
                k < MinOf(at) => ~SlotOK(name, dur, wd, PrefStart(wd, k))
         ELSE /\ \A k \in PrefInWindow(wd, dur) : ~SlotOK(name, dur, wd, PrefStart(wd, k))
              /\ s \in GridStarts(wd, dur)
              /\ \A t \in GridStarts(wd, dur) : t < s => ~SlotOK(name, dur, wd, t)

\* no start of the order passes
NothingFits(name, dur, wd) ==
  /\ \A k \in PrefInWindow(wd, dur) : ~SlotOK(name, dur, wd, PrefStart(wd, k))
  /\ \A t \in GridStarts(wd, dur) : ~SlotOK(name, dur, wd, t)

\* the step calls try_place_task_on_day: the weekday passed the day-level checks
TryStep ==
  /\ di <= 7
  /\ \/ pc = "strict" /\ StrictDayOK(specs[si].name, preferred_days[di])
     \/ pc = "relaxed" /\ RelaxedDayOK(specs[si].name, preferred_days[di])

\* C14: try_place_task_on_day is greedy first-fit: the start it accepts is the
\* first one, in the order preferred clock times inside the window, then the
\* 15-minute scan, duplicates dropped, that passes the task's own rule and the
\* buffered overlap check; it fails exactly when no start of that order passes;
\* a call adds at most one event.
C14_FirstFit ==
  [][ TryStep =>
        LET name == specs[si].name
            dur == (specs[si].hrs * 60) \div 100
            wd == preferred_days[di]
        IN  IF NothingFits(name, dur, wd)
            THEN events' = events
            ELSE /\ Len(events') = Len(events) + 1
                 /\ SubSeq(events', 1, Len(events)) = events
                 /\ events'[Len(events')].name = name
                 /\ events'[Len(events')].end = events'[Len(events')].start + dur
                 /\ IsFirstFit(name, dur, wd, events'[Len(events')].start)
    ]_vars

\* a placement whose start comes from the scan, after midnight, since no
\* preferred clock time passed
C14_Witness ==
  \E k \in 1..Len(placements) : DateOf(placements[k].start) = placements[k].wd + 1

\* Mon Thu Wed Fri Sat Sun Tue
SearchOrder == << 0, 3, 2, 4, 5, 6, 1 >>

\* positions of SearchOrder whose weekday the strict pass may use: open to the
\* relaxed pass and counted below the quota
StrictOpen(name, dur) ==
  { k \in RelaxedOpen(name, dur) :
      tasks_per_day[SearchOrder[k]] < (IF SearchOrder[k] \in 0..4 THEN 3 ELSE 4) }

\* (spec index, occurrence) a comes before b in catalog order
Earlier(a, b) == a[1] < b[1] \/ (a[1] = b[1] /\ a[2] < b[2])

\* C15: specs are taken in catalog order and their occurrences one at a time;
\* an occurrence tries the weekdays in the order Mon, Thu, Wed, Fri, Sat, Sun,
\* Tue and is placed on the first of them that passes the day-level checks and
\* the time placement; its relaxed pass starts only after the strict pass was
\* rejected on all seven weekdays and never runs for an occurrence the strict
\* pass placed.
C15_SearchOrder ==
  [][ LET name == specs[si].name
          dur == (specs[si].hrs * 60) \div 100
          last == placements'[Len(placements')]
      IN  /\ (pc \in {"strict", "relaxed"} /\ pc' \in {"strict", "relaxed"}) =>
               \/ (si' = si /\ occ' = occ)
               \/ (si' = si /\ occ' = occ + 1)
               \/ (si' > si /\ occ' = 1 /\ occ = specs[si].count
                     /\ \A m \in (si + 1)..(si' - 1) : specs[m].count = 0)
          /\ (pc \in {"strict", "relaxed"} /\ (si' # si \/ occ' # occ \/ pc' = "sort")) =>
               (pc' = "sort" \/ (pc' = "strict" /\ di' = 1))
          /\ Len(placements') = Len(placements) + 1 =>
               /\ last.si = si /\ last.occ = occ /\ last.name = name
               /\ last.wd = SearchOrder[di]
               /\ last.pass = pc
               /\ \A k \in Placed(name) : placements[k].si = si => placements[k].occ # occ
               /\ \A k \in 1..Len(placements) : Earlier(<<placements[k].si, placements[k].occ>>, <<si, occ>>)
               /\ pc = "strict" => (StrictOpen(name, dur) # {} /\ di = MinOf(StrictOpen(name, dur)))
               /\ pc = "relaxed" => (RelaxedOpen(name, dur) # {} /\ di = MinOf(RelaxedOpen(name, dur)))
          /\ (pc = "strict" /\ pc' = "relaxed") =>
               /\ di = 8 /\ di' = 1 /\ si' = si /\ occ' = occ
               /\ StrictOpen(name, dur) = {}
          /\ pc' = "relaxed" =>
               /\ pc \in {"strict", "relaxed"}
               /\ \A k \in 1..Len(placements') :
                    ~(placements'[k].si = si' /\ placements'[k].occ = occ')
    ]_vars

\* an occurrence placed by the strict pass on Tuesday, the last weekday of the
\* order, after the six before it were rejected
C15_Witness ==
  \E k \in 1..Len(placements) :
    placements[k].wd = 1 /\ placements[k].pass = "strict"

\* the event the teaching table asks for with block number i of weekday wd
TeachingEventOf(wd, i) ==
  [name |-> teaching[wd][i].name,
   start |-> wd * 1440 + teaching[wd][i].s,
   end |-> wd * 1440 + teaching[wd][i].e,
   color |-> teaching[wd][i].color,
   kind |-> "teaching"]

TableEntries == { <<wd, i>> \in (0..6) \X (1..4) : i <= Len(teaching[wd]) }

TeachingIdx == { j \in 1..Len(events) : events[j].kind = "teaching" }

\* C16: from the moment the teaching blocks are seeded, so before any task
\* placement is tried, through the returned list and the list after the
\* override, the teaching events are exactly the entries of the teaching table,
\* each once, with the table's weekday, name, start and end.
C16_TeachingUntouched ==
  pc # "seed" =>
    /\ Cardinality(TeachingIdx) = Cardinality(TableEntries)
    /\ \A en \in TableEntries :
         Cardinality({ j \in TeachingIdx : events[j] = TeachingEventOf(en[1], en[2]) })
           = Cardinality({ other \in TableEntries :
                             TeachingEventOf(other[1], other[2]) = TeachingEventOf(en[1], en[2]) })

\* the final list of a run with the default table, in which the override put
\* a task in front of all teaching events
C16_Witness ==
  /\ pc = "final" /\ teaching = TEACHING
  /\ Cardinality(TeachingIdx) = 8
  /\ Len(events) > 8 /\ events[1].kind = "task"

\* C17: every event has start < end, and every task event placed for weekday wd
\* starts at or after 13:00 of day wd, ends at or before 02:00 of day wd + 1 and
\* starts on a minute that is a multiple of 15.
C17_InsideWindowOnGrid ==
  /\ \A j \in 1..Len(events) : events[j].start < events[j].end
  /\ \A k \in 1..Len(placements) :
       /\ placements[k].start >= placements[k].wd * 1440 + 13 * 60
       /\ placements[k].end <= (placements[k].wd + 1) * 1440 + 2 * 60
       /\ (placements[k].start % 60) % 15 = 0
       /\ placements[k].start < placements[k].end
  /\ InBuild =>
       \A i \in TaskIdx : \E k \in 1..Len(placements) :
         /\ placements[k].name = events[i].name
         /\ placements[k].start = events[i].start
         /\ placements[k].end = events[i].end

\* a task event that ends at 02:00 of the next day, the very end of the window
C17_Witness ==
  \E k \in 1..Len(placements) :
    placements[k].end = (placements[k].wd + 1) * 1440 + 2 * 60

\* positions of the events named My System that start on the week's Monday
MondayMySystem(evs) ==
  { i \in 1..Len(evs) : evs[i].name = "My System" /\ evs[i].start \div 1440 = 0 }

\* how often the record r occurs in the list
Occurrences(evs, r) == Cardinality({ j \in 1..Len(evs) : evs[j] = r })

\* the two lists hold the same events, each as often, in whatever order
SameEvents(evs1, evs2) ==
  /\ Len(evs1) = Len(evs2)
  /\ \A j \in 1..Len(evs1) : Occurrences(evs1, evs1[j]) = Occurrences(evs2, evs1[j])

\* C18: the override changes the start and the end of at most one event, the
\* first event in sorted order named My System that starts on the week's
\* Monday; every other event, the number of events and the moved event's name,
\* colour and kind stay as they were; without such an event nothing changes.
C18_OverrideFrame ==
  [][ (pc = "built" /\ pc' = "final") =>
        IF MondayMySystem(events) = {}
        THEN events' = events
        ELSE LET first == MinOf(MondayMySystem(events))
                 moved == [name |-> events[first].name,
                           start |-> 13 * 60, end |-> 14 * 60,
                           color |-> events[first].color,
                           kind |-> events[first].kind]
             IN  SameEvents(events',
                            [j \in 1..Len(events) |-> IF j = first THEN moved ELSE events[j]])
    ]_vars

\* the final list of a run in which My System was placed, but not on Monday:
\* the override had nothing to move
C18_Witness ==
  /\ pc = "final"
  /\ Placed("My System") # {}
  /\ MondayMySystem(events) = {}

\* the list build_events returns for the default tables: all 21 occurrences
\* placed, each task as often as requested, every placement made by the strict
\* pass, no weekday above its quota, beside n teaching events
DefaultBuild(n) ==
  /\ Cardinality(TaskIdx) = 2 + 4 + 5 + 2 + 2 + 2 + 2 + 2
  /\ Len(placements) = 21
  /\ \A s \in 1..Len(specs) :
       Cardinality(TaskEventsNamed(specs[s].name)) = specs[s].count
  /\ \A k \in 1..Len(placements) : placements[k].pass = "strict"
  /\ \A wd \in 0..4 : Cardinality(PlacedOn(wd)) <= 3
  /\ \A wd \in 5..6 : Cardinality(PlacedOn(wd)) <= 4
  /\ Cardinality(TeachingIdx) = n
  /\ Len(events) = 21 + n

\* C19 as stated: with the default tables build_events returns 21 task events
\* beside 10 teaching events, all placed by the strict pass and within quota.
C19_TenTeachingEvents ==
  (DefaultInputs /\ pc = "built") => DefaultBuild(10)

\* C19: with the default tables build_events places every required occurrence
\* of every task, 21 task events beside the 8 teaching events of the table,
\* all in the strict pass: nothing is dropped, the relaxed pass places nothing
\* and no weekday exceeds its quota of 3 (Mon-Fri) or 4 (Sat/Sun).
C19_DefaultAllStrict ==
  /\ (DefaultInputs /\ pc = "built") => DefaultBuild(8)
  /\ (DefaultInputs /\ pc = "relaxed") => Len(placements) = 21

\* build_events has returned for the default tables
C19_Witness ==
  /\ DefaultInputs /\ pc = "built"
  /\ Len(events) = 29 /\ Len(placements) = 21

\* positions of the event the override moved
MovedIdx ==
  { i \in 1..Len(events) : events[i].name = "My System" /\ events[i].start = 13 * 60 }

\* C20: with the default tables, after the override has moved My System to
\* Monday 13:00-14:00, no two events of the final list overlap and the moved
\* event keeps at least 15 minutes from every other event.
C20_OverrideConflictFree ==
  (DefaultInputs /\ pc = "final") =>
    /\ Cardinality(MovedIdx) = 1
    /\ \A i \in MovedIdx : events[i].end = 14 * 60
    /\ \A i, j \in 1..Len(events) :
         i # j => ~Intersects(events[i].start, events[i].end,
                              events[j].start, events[j].end)
    /\ \A i \in MovedIdx : \A j \in 1..Len(events) :
         i # j => ~Intersects(events[i].start - 15, events[i].end + 15,
                              events[j].start, events[j].end)

\* the final list of the default run, My System moved to the head of the week
\* and the next event of Monday the 17:00 class
C20_Witness ==
  /\ DefaultInputs /\ pc = "final" /\ Len(events) = 29
  /\ 1 \in MovedIdx
  /\ events[2].start = 17 * 60

\* calendar date (days after the week's Monday) on which event i starts
StartDate(i) == events[i].start \div 1440

\* C21: with the default tables every task event starts on the calendar date of
\* its assigned weekday, so the per-weekday rules also hold for the dates on
\* which events start (no task twice on a date, Opening Study and Endgame Study
\* on different dates, Gym dates at least two apart), and every event of the
\* list starts on one of the seven dates of the week that is shown.
C21_StartsOnAssignedDate ==
  DefaultInputs =>
    /\ \A k \in 1..Len(placements) :
         placements[k].start \div 1440 = placements[k].wd
    /\ \A i, j \in TaskIdx :
         (i # j /\ events[i].name = events[j].name) => StartDate(i) # StartDate(j)
    /\ \A i \in TaskEventsNamed("Opening Study") :
         \A j \in TaskEventsNamed("Endgame Study") : StartDate(i) # StartDate(j)
    /\ \A i, j \in TaskEventsNamed("Gym") :
         i # j => Abs(StartDate(i) - StartDate(j)) >= 2
    /\ \A i \in 1..Len(events) : StartDate(i) \in 0..6

\* the final list of the default run, with a task that starts on the date of
\* its weekday and ends after midnight
C21_Witness ==
  /\ DefaultInputs /\ pc = "final"
  /\ \E k \in 1..Len(placements) :
       /\ placements[k].start \div 1440 = placements[k].wd
       /\ placements[k].end \div 1440 = placements[k].wd + 1

====
